---- MODULE Spec2Model ----
(***************************************************************************)
(* Peer Wire Protocol message layer of landslide.                          *)
(*                                                                         *)
(*   src/src/pwp.rs : Connection, Handshake::serialize, Message::serialize *)
(*   src/src/lib.rs : the older encoder Message::write_to                  *)
(*                                                                         *)
(* Bytes are naturals 0..255.  TLC integers are 32 bits wide and signed,   *)
(* so a u32 is held as two 16-bit limbs <<hi, lo>>, a u64 and a usize as   *)
(* four 16-bit limbs, most significant first.                              *)
(***************************************************************************)
EXTENDS Integers, Sequences, FiniteSets, TLC

VARIABLES
    msg,        \* codec: the Message being encoded
    out,        \* codec: what pwp::Message::serialize returned, or NotCalled
    writer,     \* codec: the Vec<u8> handed to lib.rs Message::write_to
    writer0,    \* codec: what the writer held before write_to was called
    res,        \* codec: Result returned by write_to ("none" before the call)
    plen,       \* codec: a payload length (usize) whose prefix is computed
    pfx,        \* codec: the two length prefixes computed from plen
    hs,         \* peer: the Handshake value
    hsOut,      \* peer: result of Handshake::serialize, or <<>> before
    conn,       \* peer: <<c>> once Connection c is made, <<>> before
    sent,       \* stream: messages serialized onto the transport, in order
    wire,       \* stream: bytes written and not yet read by the framer
    buffer,     \* stream: the framer's accumulation buffer
    delivered,  \* stream: messages the framer has yielded, in order
    err,        \* stream: "none" or the fatal codec error of the framer
    split,      \* stream: some read ended inside a frame
    merged      \* stream: some read carried more than one frame

vars == <<msg, out, writer, writer0, res, plen, pfx, hs, hsOut, conn,
          sent, wire, buffer, delivered, err, split, merged>>

codecVars  == <<msg, out, writer, writer0, res, plen, pfx>>
peerVars   == <<hs, hsOut, conn>>
streamVars == <<sent, wire, buffer, delivered, err, split, merged>>

(***************************************************************************)
(* Bounds                                                                  *)
(***************************************************************************)
\* longest Bitfield bitmap / Block data, in bytes
MaxData == 2
\* most messages sent on one stream
MaxMsgs == 2

(***************************************************************************)
(* Fixed-width integers                                                    *)
(***************************************************************************)
Limb == 256 * 256

\* a small natural as u32
U32(n) == <<n \div Limb, n % Limb>>

\* a small natural as usize (64 bits)
Usize(n) == <<0, 0, n \div Limb, n % Limb>>

\* BufMut::put_u8
put_u8(b) == <<b>>

\* BufMut::put_u32 / u32::to_be_bytes: big-endian, 4 bytes
put_u32_swapped(x) ==
    <<x[2] % 256, x[2] \div 256, x[1] % 256, x[1] \div 256>>

put_u32(x) ==
    <<x[1] \div 256, x[1] % 256, x[2] \div 256, x[2] % 256>>

\* BufMut::put_u64: big-endian, 8 bytes
put_u64(x) ==
    put_u32(<<x[1], x[2]>>) \o put_u32(<<x[3], x[4]>>)

\* usize -> u32 by TryInto: fails when the value needs more than 32 bits
try_into_u32(len) ==
    IF len[1] = 0 /\ len[2] = 0
    THEN [ok |-> TRUE, val |-> <<len[3], len[4]>>]
    ELSE [ok |-> FALSE, val |-> <<0, 0>>]

\* `len as i32`: keeps the low 32 bits (two's complement bit pattern)
as_i32_saturating(len) ==
    IF len[1] = 0 /\ len[2] = 0 /\ len[3] < 32768
    THEN <<len[3], len[4]>>
    ELSE <<32767, 65535>>

as_i32(len) == <<len[3], len[4]>>

\* i32::to_be_bytes of a two's complement bit pattern
i32_to_be_bytes(x) ==
    <<x[1] \div 256, x[1] % 256, x[2] \div 256, x[2] % 256>>

(***************************************************************************)
(* Message values                                                          *)
(***************************************************************************)
KeepAlive    == [type |-> "KeepAlive"]
Choke        == [type |-> "Choke"]
Unchoke      == [type |-> "Unchoke"]
Interested   == [type |-> "Interested"]
Uninterested == [type |-> "Uninterested"]
Have(i)            == [type |-> "Have", index |-> i]
Bitfield(b)        == [type |-> "Bitfield", data |-> b]
Request(i, o, l)   == [type |-> "Request", index |-> i, offset |-> o, length |-> l]
Cancel(i, o, l)    == [type |-> "Cancel", index |-> i, offset |-> o, length |-> l]
Block(i, o, d)     == [type |-> "Block", index |-> i, offset |-> o, data |-> d]

\* What a call returns: bytes, or a panic (`expect` on a failed conversion)
Returned(b) == [status |-> "returned", bytes |-> b]
Panicked    == [status |-> "panicked", bytes |-> <<>>]
NotCalled   == [status |-> "none", bytes |-> <<>>]

\* Sampled field values: 0, 666 = 0x29a, 0x01020304, 0xFFFFFFFF
U32Samples == {<<0, 0>>, <<0, 666>>, <<258, 772>>, <<65535, 65535>>}
ByteSamples == {0, 255}

SeqsUpTo(S, n) == UNION {[1..k -> S] : k \in 0..n}

DataSamples == SeqsUpTo(ByteSamples, MaxData)

Messages ==
    {KeepAlive, Choke, Unchoke, Interested, Uninterested}
    \cup {Have(i) : i \in U32Samples}
    \cup {Bitfield(b) : b \in DataSamples}
    \cup {Request(i, o, l) : i \in U32Samples, o \in U32Samples, l \in U32Samples}
    \cup {Cancel(i, o, l) : i \in U32Samples, o \in U32Samples, l \in U32Samples}
    \cup {Block(i, o, d) : i \in U32Samples, o \in U32Samples, d \in DataSamples}

(***************************************************************************)
(* pwp::Message::serialize (src/src/pwp.rs)                                *)
(***************************************************************************)
\* len.try_into().expect(..) followed by put_u32
length_prefix(len) ==
    LET r == try_into_u32(len)
    IN  IF r.ok THEN Returned(put_u32(r.val)) ELSE Panicked

serialize_keepalive_empty == <<>>

serialize_keepalive == <<0, 0, 0, 0>>

serialize_have_len4(index) ==
    put_u32(U32(4)) \o put_u8(4) \o put_u32(index)

serialize_have(index) ==
    put_u32(U32(5)) \o put_u8(4) \o put_u32(index)

serialize_bitfield_short(b) ==
    LET p == length_prefix(Usize(Len(b)))
    IN  IF p.status = "panicked" THEN Panicked
        ELSE Returned(p.bytes \o put_u8(5) \o b)

serialize_bitfield(b) ==
    LET len == Usize(Len(b) + 1)
        p   == length_prefix(len)
    IN  IF p.status = "panicked" THEN Panicked
        ELSE Returned(p.bytes \o put_u8(5) \o b)

serialize_request(index, offset, length) ==
    put_u32(U32(13)) \o put_u8(6)
        \o put_u32(index) \o put_u32(offset) \o put_u32(length)

serialize_cancel_tag7(index, offset, length) ==
    put_u32(U32(13)) \o put_u8(7)
        \o put_u32(index) \o put_u32(offset) \o put_u32(length)

serialize_cancel(index, offset, length) ==
    put_u32(U32(13)) \o put_u8(8)
        \o put_u32(index) \o put_u32(offset) \o put_u32(length)

serialize_block(index, offset, data) ==
    LET len == Usize(Len(data) + 9)
        p   == length_prefix(len)
    IN  IF p.status = "panicked" THEN Panicked
        ELSE Returned(p.bytes \o put_u8(7)
                        \o put_u32(index) \o put_u32(offset) \o data)

serialize(m) ==
    CASE m.type = "KeepAlive"    -> Returned(serialize_keepalive)
      [] m.type = "Choke"        -> Returned(<<0, 0, 0, 1, 0>>)
      [] m.type = "Unchoke"      -> Returned(<<0, 0, 0, 1, 1>>)
      [] m.type = "Interested"   -> Returned(<<0, 0, 0, 1, 2>>)
      [] m.type = "Uninterested" -> Returned(<<0, 0, 0, 1, 3>>)
      [] m.type = "Have"         -> Returned(serialize_have(m.index))
      [] m.type = "Bitfield"     -> serialize_bitfield(m.data)
      [] m.type = "Request"      ->
            Returned(serialize_request(m.index, m.offset, m.length))
      [] m.type = "Cancel"       ->
            Returned(serialize_cancel(m.index, m.offset, m.length))
      [] m.type = "Block"        -> serialize_block(m.index, m.offset, m.data)

(***************************************************************************)
(* The older encoder Message::write_to (src/src/lib.rs), on a Vec<u8>.     *)
(* Write::write_all on a Vec appends and returns Ok.                       *)
(***************************************************************************)
write_all(w, bytes) == w \o bytes

\* (len as i32).to_be_bytes()
len_bytes(len) == i32_to_be_bytes(as_i32(len))

write_to_keepalive_framed(w) == write_all(w, <<0, 0, 0, 0>>)

write_to_keepalive(w) == write_all(w, <<>>)

\* the writer's contents after write_to(m, w)
write_to(m, w) ==
    CASE m.type = "KeepAlive"    -> write_to_keepalive(w)
      [] m.type = "Choke"        -> write_all(w, <<0, 0, 0, 1, 0>>)
      [] m.type = "Unchoke"      -> write_all(w, <<0, 0, 0, 1, 1>>)
      [] m.type = "Interested"   -> write_all(w, <<0, 0, 0, 1, 2>>)
      [] m.type = "Uninterested" -> write_all(w, <<0, 0, 0, 1, 3>>)
      [] m.type = "Have"         ->
            write_all(write_all(w, <<0, 0, 0, 5, 4>>), put_u32(m.index))
      [] m.type = "Bitfield"     ->
            LET len == Usize(Len(m.data) + 1)
            IN  write_all(write_all(write_all(w, len_bytes(len)), <<5>>), m.data)
      [] m.type = "Request"      ->
            write_all(write_all(write_all(write_all(w, <<0, 0, 0, 13, 6>>),
                put_u32(m.index)), put_u32(m.offset)), put_u32(m.length))
      [] m.type = "Cancel"       ->
            write_all(write_all(write_all(write_all(w, <<0, 0, 0, 13, 8>>),
                put_u32(m.index)), put_u32(m.offset)), put_u32(m.length))
      [] m.type = "Block"        ->
            LET len == Usize(Len(m.data) + 9)
            IN  write_all(write_all(write_all(write_all(write_all(w,
                    len_bytes(len)), <<7>>),
                    put_u32(m.index)), put_u32(m.offset)), m.data)

(***************************************************************************)
(* Codec specification: one message, encoded by both encoders; one payload *)
(* length whose prefix is computed the way each encoder computes it.       *)
(***************************************************************************)
\* what the writer may hold before write_to is called
WriterSamples == {<<>>, <<0, 0, 0, 0>>, <<7, 255>>}

\* payload lengths as usize: 1, 2^31 - 1, 2^31, 2^32 - 1, 2^32, 2^32 + 1
LenSamples ==
    {<<0, 0, 0, 1>>, <<0, 0, 32767, 65535>>, <<0, 0, 32768, 0>>,
     <<0, 0, 65535, 65535>>, <<0, 1, 0, 0>>, <<0, 1, 0, 1>>}

NoPrefix == [new |-> NotCalled, old |-> <<>>]

PeerIdle ==
    /\ hs = [flags |-> <<0, 0, 0, 0>>, info_hash |-> <<>>, peer_id |-> <<>>]
    /\ hsOut = <<>>
    /\ conn = <<>>

StreamIdle ==
    /\ sent = <<>>
    /\ wire = <<>>
    /\ buffer = <<>>
    /\ delivered = <<>>
    /\ err = "none"
    /\ split = FALSE
    /\ merged = FALSE

CodecIdle ==
    /\ msg = KeepAlive
    /\ out = NotCalled
    /\ writer = <<>>
    /\ writer0 = <<>>
    /\ res = "none"
    /\ plen = <<0, 0, 0, 0>>
    /\ pfx = NoPrefix

CodecInit ==
    /\ msg \in Messages
    /\ out = NotCalled
    /\ writer \in WriterSamples
    /\ writer0 = writer
    /\ res = "none"
    /\ plen \in LenSamples
    /\ pfx = NoPrefix
    /\ PeerIdle
    /\ StreamIdle

\* let buf = msg.serialize();
Serialize ==
    /\ out.status = "none"
    /\ out' = serialize(msg)
    /\ UNCHANGED <<msg, writer, writer0, res, plen, pfx, peerVars, streamVars>>

\* let res = msg.write_to(&mut buf);
WriteTo ==
    /\ res = "none"
    /\ writer' = write_to(msg, writer)
    /\ res' = "Ok"
    /\ UNCHANGED <<msg, out, writer0, plen, pfx, peerVars, streamVars>>

\* the length prefix of a payload of plen bytes, by each encoder
LengthPrefix ==
    /\ pfx = NoPrefix
    /\ pfx' = [new |-> length_prefix(plen), old |-> len_bytes(plen)]
    /\ UNCHANGED <<msg, out, writer, writer0, res, plen, peerVars, streamVars>>

CodecNext == Serialize \/ WriteTo \/ LengthPrefix

SpecCodec == CodecInit /\ [][CodecNext]_vars

(***************************************************************************)
(* Claims about the codec                                                  *)
(***************************************************************************)
\* big-endian reading of the 4 bytes of b that start at position i
BE32(b, i) == <<b[i] * 256 + b[i + 1], b[i + 2] * 256 + b[i + 3]>>

BytesFrom(b, i) == SubSeq(b, i, Len(b))

\* C1: whenever serialize returns, the returned bytes are 4 bytes longer
\* than the big-endian value of their first 4 bytes.
C1_LengthPrefix ==
    out.status = "returned" =>
        /\ Len(out.bytes) >= 4
        /\ BE32(out.bytes, 1) = U32(Len(out.bytes) - 4)

C1_Witness ==
    /\ out.status = "returned"
    /\ msg.type = "Block"
    /\ Len(msg.data) = MaxData

\* C2: serialize(KeepAlive) returns exactly the four bytes 0,0,0,0.
C2_KeepAlive ==
    (out.status # "none" /\ msg.type = "KeepAlive") =>
        out = Returned(<<0, 0, 0, 0>>)

C2_Witness == out.status = "returned" /\ msg.type = "KeepAlive"

\* C3: the fifth byte of every returned non-KeepAlive encoding is the
\* variant's type tag (Choke 0, Unchoke 1, Interested 2, Uninterested 3,
\* Have 4, Bitfield 5, Request 6, Block 7, Cancel 8), and no two variants
\* share a tag.
TypeTag ==
    [t \in {"Choke", "Unchoke", "Interested", "Uninterested", "Have",
            "Bitfield", "Request", "Block", "Cancel"} |->
        CASE t = "Choke" -> 0 [] t = "Unchoke" -> 1 [] t = "Interested" -> 2
          [] t = "Uninterested" -> 3 [] t = "Have" -> 4 [] t = "Bitfield" -> 5
          [] t = "Request" -> 6 [] t = "Block" -> 7 [] t = "Cancel" -> 8]

C3_TypeTag ==
    (out.status = "returned" /\ msg.type # "KeepAlive") =>
        /\ Len(out.bytes) >= 5
        /\ out.bytes[5] = TypeTag[msg.type]
        /\ \A t \in DOMAIN TypeTag :
              TypeTag[t] = out.bytes[5] => t = msg.type

C3_Witness ==
    /\ out.status = "returned"
    /\ msg.type = "Cancel"
    /\ out.bytes[5] = 8

\* C4: after the tag, a returned encoding holds exactly the payload
\* layout of its variant: Have the 4-byte big-endian index; Request and
\* Cancel the big-endian index, offset, length; Block the big-endian
\* index and offset, then the data unchanged; Bitfield the bitmap
\* unchanged.
C4_Payload ==
    out.status = "returned" =>
        LET b == out.bytes
        IN  CASE msg.type = "Have" ->
                    Len(b) = 9 /\ BE32(b, 6) = msg.index
              [] msg.type \in {"Request", "Cancel"} ->
                    /\ Len(b) = 17
                    /\ BE32(b, 6) = msg.index
                    /\ BE32(b, 10) = msg.offset
                    /\ BE32(b, 14) = msg.length
              [] msg.type = "Block" ->
                    /\ Len(b) >= 13
                    /\ BE32(b, 6) = msg.index
                    /\ BE32(b, 10) = msg.offset
                    /\ BytesFrom(b, 14) = msg.data
              [] msg.type = "Bitfield" ->
                    Len(b) >= 5 /\ BytesFrom(b, 6) = msg.data
              [] OTHER -> TRUE

C4_Witness ==
    /\ out.status = "returned"
    /\ msg.type = "Block"
    /\ msg.index = <<0, 666>>
    /\ msg.offset = <<65535, 65535>>
    /\ Len(msg.data) = MaxData

\* C9: write_to of KeepAlive returns Ok and leaves the writer holding
\* exactly what it held before, whatever that was.
C9_OldKeepAlive ==
    (res # "none" /\ msg.type = "KeepAlive") =>
        res = "Ok" /\ writer = writer0

C9_Witness ==
    /\ res = "Ok"
    /\ msg.type = "KeepAlive"
    /\ writer0 # <<>>

\* C10: for a message other than KeepAlive, write_to into an empty writer
\* leaves the bytes serialize returns; and for every payload length that
\* fits in 32 bits the two encoders compute the same length prefix.
FitsU32(len) == len[1] = 0 /\ len[2] = 0

C10_SameBytes ==
    /\ (res = "Ok" /\ out.status = "returned" /\ writer0 = <<>>
            /\ msg.type # "KeepAlive") => writer = out.bytes
    /\ (pfx # NoPrefix /\ FitsU32(plen)) => pfx.new = Returned(pfx.old)

C10_Witness ==
    /\ res = "Ok"
    /\ out.status = "returned"
    /\ writer0 = <<>>
    /\ msg.type = "Block"
    /\ Len(msg.data) = MaxData
    /\ pfx # NoPrefix
    /\ plen = <<0, 0, 32768, 0>>

(***************************************************************************)
(* Connection and Handshake (src/src/pwp.rs)                               *)
(***************************************************************************)
InterestFlag_default_first == "Interested"

InterestFlag_default == "NotInterested"

ChokeFlag_default == "Choked"

\* #[derive(Default)] on Connection: every field takes its type's default
Connection_default ==
    [us_choking      |-> ChokeFlag_default,
     us_interested   |-> InterestFlag_default,
     them_choking    |-> ChokeFlag_default,
     them_interested |-> InterestFlag_default]

\* HandshakeFlags constants, as u64
FAST     == <<0, 0, 0, 1024>>
DHT      == <<0, 0, 0, 1>>
EXTENDED == <<0, 0, 4096, 0>>

\* b"BitTorrent Protocol", the literal Handshake::serialize writes
ProtocolLiteral ==
    <<66, 105, 116, 84, 111, 114, 114, 101, 110, 116, 32,
      80, 114, 111, 116, 111, 99, 111, 108>>

Handshake_serialize_no_len(h) ==
    ProtocolLiteral \o put_u64(h.flags) \o h.peer_id \o h.info_hash

Handshake_serialize(h) ==
    put_u8(19) \o ProtocolLiteral \o put_u64(h.flags)
        \o h.peer_id \o h.info_hash

\* flags: none, FAST | DHT, EXTENDED, FAST | DHT | EXTENDED, an unknown
\* top bit, every bit
FlagSamples ==
    {<<0, 0, 0, 0>>, <<0, 0, 0, 1025>>, EXTENDED, <<0, 0, 4096, 1025>>,
     <<32768, 0, 0, 0>>, <<65535, 65535, 65535, 65535>>}

\* 20-byte identifiers: b"Landslide Experiment", b"12345678901234567890",
\* all zero, all 0xFF
IdSamples ==
    {<<76, 97, 110, 100, 115, 108, 105, 100, 101, 32,
       69, 120, 112, 101, 114, 105, 109, 101, 110, 116>>,
     <<49, 50, 51, 52, 53, 54, 55, 56, 57, 48,
       49, 50, 51, 52, 53, 54, 55, 56, 57, 48>>,
     [i \in 1..20 |-> 0],
     [i \in 1..20 |-> 255]}

Handshakes ==
    [flags : FlagSamples, info_hash : IdSamples, peer_id : IdSamples]

PeerInit ==
    /\ hs \in Handshakes
    /\ hsOut = <<>>
    /\ conn = <<>>
    /\ CodecIdle
    /\ StreamIdle

\* let buf = handshake.serialize();
HandshakeSerialize ==
    /\ hsOut = <<>>
    /\ hsOut' = Handshake_serialize(hs)
    /\ UNCHANGED <<hs, conn, codecVars, streamVars>>

\* Connection::default()
ConnectionDefault ==
    /\ conn = <<>>
    /\ conn' = <<Connection_default>>
    /\ UNCHANGED <<hs, hsOut, codecVars, streamVars>>

PeerNext == HandshakeSerialize \/ ConnectionDefault

SpecPeer == PeerInit /\ [][PeerNext]_vars

\* C5: Handshake::serialize returns exactly 68 bytes, the first one 19.
C5_HandshakeSize ==
    hsOut # <<>> => Len(hsOut) = 68 /\ hsOut[1] = 19

C5_Witness ==
    /\ Len(hsOut) = 68
    /\ hs.flags = <<65535, 65535, 65535, 65535>>

\* C6: Handshake::serialize returns byte 0 = 19, bytes 1..19 = the ASCII
\* of "BitTorrent protocol", bytes 20..27 = the flags big-endian, bytes
\* 28..47 = the PeerId, bytes 48..67 = the ContentId.
ProtocolName ==
    <<66, 105, 116, 84, 111, 114, 114, 101, 110, 116, 32,
      112, 114, 111, 116, 111, 99, 111, 108>>

BE64(b, i) == BE32(b, i) \o BE32(b, i + 4)

C6_HandshakeLayout ==
    hsOut # <<>> =>
        /\ Len(hsOut) = 68
        /\ hsOut[1] = 19
        /\ SubSeq(hsOut, 2, 20) = ProtocolName
        /\ BE64(hsOut, 21) = hs.flags
        /\ SubSeq(hsOut, 29, 48) = hs.peer_id
        /\ SubSeq(hsOut, 49, 68) = hs.info_hash

\* C8: a Connection made by Connection::default() is choked both ways and
\* interested neither way.
C8_ConnectionDefault ==
    conn # <<>> =>
        conn[1] = [us_choking |-> "Choked", them_choking |-> "Choked",
                   us_interested |-> "NotInterested",
                   them_interested |-> "NotInterested"]

C8_Witness == conn # <<>> /\ conn[1].us_choking = "Choked"

(***************************************************************************)
(* Message Frame Codec decode and Stream Framer.  The repository encodes   *)
(* only; these two follow spec.md, sections 4.2 and 4.3.                   *)
(***************************************************************************)
\* the configured maximum frame size: a 16 KiB block and its 9-byte header
MaxFrameSize == 16393

Incomplete     == [kind |-> "Incomplete"]
Decoded(m, n)  == [kind |-> "Message", msg |-> m, consumed |-> n]
Failed(e)      == [kind |-> "Error", error |-> e]

\* one frame from the front of buf
decode(buf) ==
    IF Len(buf) < 4 THEN Incomplete
    ELSE
        LET declared == BE32(buf, 1)
            n        == declared[2]
        IN  IF declared[1] > 0 \/ n > MaxFrameSize THEN Failed("FrameTooLarge")
            ELSE IF n = 0 THEN Decoded(KeepAlive, 4)
            ELSE IF Len(buf) < 4 + n THEN Incomplete
            ELSE
                LET tag == buf[5]
                IN  CASE tag = 0 /\ n = 1 -> Decoded(Choke, 5)
                      [] tag = 1 /\ n = 1 -> Decoded(Unchoke, 5)
                      [] tag = 2 /\ n = 1 -> Decoded(Interested, 5)
                      [] tag = 3 /\ n = 1 -> Decoded(Uninterested, 5)
                      [] tag = 4 /\ n = 5 -> Decoded(Have(BE32(buf, 6)), 9)
                      [] tag = 5 ->
                            Decoded(Bitfield(SubSeq(buf, 6, 4 + n)), 4 + n)
                      [] tag = 6 /\ n = 13 ->
                            Decoded(Request(BE32(buf, 6), BE32(buf, 10),
                                            BE32(buf, 14)), 17)
                      [] tag = 7 /\ n >= 9 ->
                            Decoded(Block(BE32(buf, 6), BE32(buf, 10),
                                          SubSeq(buf, 14, 4 + n)), 4 + n)
                      [] tag = 8 /\ n = 13 ->
                            Decoded(Cancel(BE32(buf, 6), BE32(buf, 10),
                                           BE32(buf, 14)), 17)
                      [] OTHER -> Failed("MalformedMessage")

\* decode repeatedly from the front of buf until a frame is incomplete
RECURSIVE drain(_, _)
drain(buf, yielded) ==
    LET d == decode(buf)
    IN  CASE d.kind = "Incomplete" ->
                [buffer |-> buf, msgs |-> yielded, err |-> "none"]
          [] d.kind = "Error" ->
                [buffer |-> buf, msgs |-> yielded, err |-> d.error]
          [] d.kind = "Message" ->
                drain(SubSeq(buf, d.consumed + 1, Len(buf)),
                      Append(yielded, d.msg))

\* messages put on a stream: every variant, with fields of all-zero and
\* all-one bits, data empty and MaxData zero bytes
StreamData == {<<>>, [i \in 1..MaxData |-> 0]}

StreamMessages ==
    {KeepAlive, Choke, Unchoke, Interested, Uninterested,
     Have(<<0, 0>>), Have(<<65535, 65535>>),
     Request(<<65535, 65535>>, <<65535, 65535>>, <<65535, 65535>>),
     Cancel(<<0, 0>>, <<0, 0>>, <<0, 0>>),
     Block(<<0, 0>>, <<0, 0>>, <<>>),
     Block(<<65535, 65535>>, <<0, 0>>, [i \in 1..MaxData |-> 0])}
    \cup {Bitfield(b) : b \in StreamData}

StreamInit ==
    /\ StreamIdle
    /\ CodecIdle
    /\ PeerIdle

\* the sender serializes m and writes the bytes to the transport
Send(m) ==
    /\ Len(sent) < MaxMsgs
    /\ LET r == serialize(m)
       IN  /\ r.status = "returned"
           /\ wire' = wire \o r.bytes
    /\ sent' = Append(sent, m)
    /\ UNCHANGED <<buffer, delivered, err, split, merged, codecVars, peerVars>>

\* the transport hands the framer the next k bytes
Feed(k) ==
    /\ err = "none"
    /\ k \in 1..Len(wire)
    /\ LET r == drain(buffer \o SubSeq(wire, 1, k), <<>>)
       IN  /\ buffer' = r.buffer
           /\ delivered' = delivered \o r.msgs
           /\ err' = r.err
           /\ split' = (split \/ r.buffer # <<>>)
           /\ merged' = (merged \/ Len(r.msgs) >= 2)
    /\ wire' = SubSeq(wire, k + 1, Len(wire))
    /\ UNCHANGED <<sent, codecVars, peerVars>>

StreamNext ==
    \/ \E m \in StreamMessages : Send(m)
    \/ \E k \in 1..Len(wire) : Feed(k)

SpecStream == StreamInit /\ [][StreamNext]_vars

\* C7: however the serialized bytes are cut into reads, the framer never
\* fails, the messages it has yielded are always a prefix of the messages
\* sent, and once every byte has been read it has yielded exactly the
\* messages sent, in order.
IsPrefix(a, b) == Len(a) <= Len(b) /\ a = SubSeq(b, 1, Len(a))

====
